---- MODULE Spec2Model ----
(***************************************************************************)
(* Model of the retrieval-augmented answering core of the customer-support *)
(* assistant: OllamaClient and CustomerSupportLLM                           *)
(* (app/services/llm_wrapper.py), KnowledgeBaseManager                     *)
(* (app/services/knowledge_base.py), PromptBuilder                         *)
(* (app/utils/prompt_builder.py) and the handler of POST /ask              *)
(* (app/api/routes/ask.py).                                                *)
(*                                                                         *)
(* Text is a sequence of one-character strings, so that strip(), split(),  *)
(* lower(), the regular expressions and the Q:/A: formatting are computed  *)
(* character by character as the Python code computes them.                *)
(***************************************************************************)
EXTENDS Integers, Sequences, FiniteSets, TLC

VARIABLES
    \* ---- OllamaClient.generate -------------------------------------------
    gpc,          \* position of the generate call: "idle", "attempting", "done"
    retry_count,  \* the retry_count argument of the running call
    attempt,      \* the loop variable of for attempt in range(retry_count + 1)
    posts,        \* the outcomes of the POST /api/generate requests sent so far
    pauses,       \* number of time.sleep(1) calls made so far
    result,       \* what the call returned or raised
    \* ---- KnowledgeBaseManager ------------------------------------------
    file,         \* the knowledge source at knowledge_base_path
    qa_pairs,     \* self.qa_pairs
    raw_content,  \* self._raw_content
    kpc,          \* position of a running reload: "idle" or "reloading"
    before,       \* qa_pairs when the running or last load/reload was called
    last,         \* the last finished load/reload and how it ended
    seen,         \* what the last concurrent reader saw
    call,         \* the last read operation applied, its arguments and value
    \* ---- CustomerSupportLLM and the probes of OllamaClient -----------------
    knowledge_base, \* self.knowledge_base: "None" or "manager" (the store)
    apc,          \* position of answer_question: "idle", "generating", "done"
    ans,          \* the running or last answer_question call and how it ended
    probe,        \* the last check_connection / check_model_available call
    \* ---- ask_question, the handler of POST /ask ---------------------------
    rpc,          \* position of the request: "idle", "constructing",
                  \* "checking_model", "constructed", "answering", "storing", "done"
    client,       \* the httpx.Client of the request: "none", "open", "closed"
    probes,       \* the probes CustomerSupportLLM.__init__ has made, in order
    stored,       \* how query_repo.create ended: "none", "ok", "raised"
    ask_response  \* the HTTP response of the request

genVars == <<gpc, retry_count, attempt, posts, pauses, result>>

storeVars == <<file, qa_pairs, raw_content, kpc, before, last, seen>>

answerVars == <<knowledge_base, apc, ans, probe>>

askVars == <<rpc, client, probes, stored, ask_response>>

vars == <<gpc, retry_count, attempt, posts, pauses, result,
          file, qa_pairs, raw_content, kpc, before, last, seen, call,
          knowledge_base, apc, ans, probe,
          rpc, client, probes, stored, ask_response>>

----------------------------------------------------------------------------
(* Bounds *)
MaxRetry == 3

----------------------------------------------------------------------------
(* Text helpers: Python str methods on character sequences *)

Whitespace == {" ", "\n"}

RECURSIVE lstrip(_)
lstrip(s) ==
    IF s = <<>> THEN <<>>
    ELSE IF Head(s) \in Whitespace THEN lstrip(Tail(s)) ELSE s

RECURSIVE rstrip(_)
rstrip(s) ==
    IF s = <<>> THEN <<>>
    ELSE IF s[Len(s)] \in Whitespace THEN rstrip(SubSeq(s, 1, Len(s) - 1)) ELSE s

\* str.strip()
strip(s) == rstrip(lstrip(s))

----------------------------------------------------------------------------
(* OllamaClient.generate *)

\* Response bodies of a 200 answer: data.get("response", "") is the text, ""
\* when the key is missing; response.json() raises on a body that is not JSON.
Payloads ==
    { <<>>, <<" ">>, <<"o", "k">>, <<" ", "o", "k">>, <<"o", "k", "\n">>,
      <<"o", " ", "k">> }

StatusCodes == {404, 500, 503}
Bodies == { <<"e", "r", "r">> }

\* What one self.client.post("/api/generate") can do.
PostOutcomes ==
    [kind : {"timeout"}]
    \cup [kind : {"transport"}]
    \cup [kind : {"status"}, status_code : StatusCodes, text : Bodies]
    \cup [kind : {"ok"}, response : Payloads]
    \cup [kind : {"ok_no_key"}]
    \cup [kind : {"bad_json"}]

NoResult == [kind |-> "running"]
ReturnedNone == [kind |-> "None"]
Returned(text) == [kind |-> "str", text |-> text]
\* LLMException(message, details); AppException stores details or {}.
RaisedLLM(msg, details) ==
    [kind |-> "LLMException", message |-> msg, details |-> details]
\* OllamaConnectionException(details=...), a subclass of LLMException.
RaisedConn(details) ==
    [kind |-> "OllamaConnectionException", details |-> details]
NoDetails == [none |-> TRUE]

\* The text data.get("response", "") yields for a 200 answer.
generated_text(o) == IF o.kind = "ok" THEN o.response ELSE <<>>

\* Entering for attempt in range(retry_count + 1): the body runs only when
\* the range is not empty, otherwise the function falls off its end.
GenerateStart(r) ==
    /\ gpc = "idle"
    /\ retry_count' = r
    /\ attempt' = 0
    /\ posts' = <<>>
    /\ pauses' = 0
    /\ IF 0 < r + 1
         THEN gpc' = "attempting" /\ result' = NoResult
         ELSE gpc' = "done" /\ result' = ReturnedNone

\* generate called directly on the client.
GenerateCall(r) ==
    /\ apc = "idle"
    /\ GenerateStart(r)
    /\ UNCHANGED <<askVars, storeVars, call, answerVars>>

\* if attempt < retry_count in the TimeoutException handler.
retry_allowed_always(a, r) == TRUE
retry_allowed_off_by_one(a, r) == a < r - 1
retry_allowed(a, r) == a < r

\* return generated_text.strip().
returned_text_unstripped(text) == text
returned_text(text) == strip(text)

\* Which way one iteration of the try statement leaves: the except clause that
\* catches what the body raised, or "return" when the body returns.
\*   TimeoutException -> first clause; HTTPStatusError (raise_for_status) ->
\*   second clause; anything else, including the LLMException the body raises
\*   for an empty text and a response.json() failure -> except Exception.
handler_retrying_status(o) ==
    CASE o.kind \in {"timeout", "status", "transport"} -> "TimeoutException"
      [] o.kind = "bad_json" -> "Exception"
      [] o.kind \in {"ok", "ok_no_key"} ->
           IF generated_text(o) = <<>> THEN "Exception" ELSE "return"
handler_accepting_empty(o) ==
    CASE o.kind = "timeout" -> "TimeoutException"
      [] o.kind = "status" -> "HTTPStatusError"
      [] o.kind \in {"transport", "bad_json"} -> "Exception"
      [] o.kind \in {"ok", "ok_no_key"} -> "return"
handler(o) ==
    CASE o.kind = "timeout" -> "TimeoutException"
      [] o.kind = "status" -> "HTTPStatusError"
      [] o.kind \in {"transport", "bad_json"} -> "Exception"
      [] o.kind \in {"ok", "ok_no_key"} ->
           IF generated_text(o) = <<>> THEN "Exception" ELSE "return"

\* One iteration of the loop body: the POST, and the handling of its outcome.
Post(o) ==
    /\ gpc = "attempting"
    /\ posts' = Append(posts, o)
    /\ UNCHANGED <<askVars, retry_count, storeVars, call, answerVars>>
    /\ CASE handler(o) = "TimeoutException" ->
              IF retry_allowed(attempt, retry_count)
                THEN /\ pauses' = pauses + 1      \* time.sleep(1); continue
                     /\ attempt' = attempt + 1
                     \* the last value of range(retry_count + 1) ends the loop
                     /\ IF attempt + 1 < retry_count + 1
                          THEN gpc' = "attempting" /\ result' = NoResult
                          ELSE gpc' = "done" /\ result' = ReturnedNone
                ELSE /\ result' = RaisedConn([error |-> "Request timeout after retries",
                                              attempts |-> retry_count + 1])
                     /\ gpc' = "done"
                     /\ UNCHANGED <<pauses, attempt>>
         [] handler(o) = "HTTPStatusError" ->
              /\ result' = RaisedLLM("HTTP error from Ollama",
                                     [status_code |-> o.status_code,
                                      response |-> o.text])
              /\ gpc' = "done"
              /\ UNCHANGED <<pauses, attempt>>
         [] handler(o) = "Exception" ->
              /\ result' = RaisedLLM("Failed to generate response", NoDetails)
              /\ gpc' = "done"
              /\ UNCHANGED <<pauses, attempt>>
         [] handler(o) = "return" ->
              /\ result' = Returned(returned_text(generated_text(o)))
              /\ gpc' = "done"
              /\ UNCHANGED <<pauses, attempt>>

\* The caller takes the result; the client is ready for the next call.
GenerateReturn ==
    /\ gpc = "done"
    /\ apc = "idle"
    /\ gpc' = "idle"
    /\ retry_count' = 0
    /\ attempt' = 0
    /\ posts' = <<>>
    /\ pauses' = 0
    /\ result' = NoResult
    /\ UNCHANGED <<askVars, storeVars, call, answerVars>>

InitGenerate ==
    /\ gpc = "idle"
    /\ retry_count = 0
    /\ attempt = 0
    /\ posts = <<>>
    /\ pauses = 0
    /\ result = NoResult


----------------------------------------------------------------------------
(* Text helpers used by KnowledgeBaseManager *)

Min(S) == CHOOSE x \in S : \A y \in S : x <= y
Max(S) == CHOOSE x \in S : \A y \in S : x >= y

\* Number of whitespace characters of t from position p on (a greedy \s*).
RECURSIVE wsrun(_, _)
wsrun(t, p) ==
    IF p <= Len(t) /\ t[p] \in Whitespace THEN 1 + wsrun(t, p + 1) ELSE 0

\* Number of non-whitespace characters at the head of t.
RECURSIVE wordlen(_)
wordlen(t) ==
    IF t = <<>> \/ Head(t) \in Whitespace THEN 0 ELSE 1 + wordlen(Tail(t))

\* str.split(): the maximal runs of non-whitespace characters, in order.
RECURSIVE split(_)
split(t) ==
    LET s == lstrip(t) IN
    IF s = <<>> THEN <<>>
    ELSE <<SubSeq(s, 1, wordlen(s))>> \o split(SubSeq(s, wordlen(s) + 1, Len(s)))

\* sep.join(parts)
RECURSIVE join(_, _)
join(sep, parts) ==
    IF parts = <<>> THEN <<>>
    ELSE IF Len(parts) = 1 THEN parts[1]
    ELSE parts[1] \o sep \o join(sep, Tail(parts))

\* str.lower() on the letters of the alphabet used here.
UpperCase ==
    <<"A", "B", "C", "D", "E", "F", "G", "H", "I", "J", "K", "L", "M",
      "N", "O", "P", "Q", "R", "S", "T", "U", "V", "W", "X", "Y", "Z">>
LowerCase ==
    <<"a", "b", "c", "d", "e", "f", "g", "h", "i", "j", "k", "l", "m",
      "n", "o", "p", "q", "r", "s", "t", "u", "v", "w", "x", "y", "z">>
lower_char(c) ==
    IF \E i \in DOMAIN UpperCase : UpperCase[i] = c
      THEN LowerCase[CHOOSE i \in DOMAIN UpperCase : UpperCase[i] = c]
      ELSE c
lower(t) == [i \in DOMAIN t |-> lower_char(t[i])]

\* set(words)
set(words) == {words[i] : i \in DOMAIN words}

\* The literal m (two characters) stands at position p of t.
at(t, p, m) == p >= 1 /\ p + 1 <= Len(t) /\ t[p] = m[1] /\ t[p + 1] = m[2]

----------------------------------------------------------------------------
(* KnowledgeBaseManager._clean_text *)

\* Position of the first occurrence of character c in t at or after p,
\* Len(t) + 1 when there is none.
RECURSIVE find_char(_, _, _)
find_char(t, p, c) ==
    IF p > Len(t) \/ t[p] = c THEN p ELSE find_char(t, p + 1, c)

\* Number of consecutive characters c from position p, at most n of them.
RECURSIVE run_of(_, _, _, _)
run_of(t, p, c, n) ==
    IF n > 0 /\ p <= Len(t) /\ t[p] = c THEN 1 + run_of(t, p + 1, c, n - 1) ELSE 0

\* re.sub(r'M{1,n}([^M]+)M{1,n}', r'\1', t) from position p on: at each
\* position the opening run is tried longest first, the inner text is the
\* run of characters other than M and must be non-empty, the closing run is
\* taken as long as possible; an unmatched character is copied.
RECURSIVE sub_marked(_, _, _, _)
sub_marked(t, p, mark, n) ==
    IF p > Len(t) THEN <<>>
    ELSE
      LET opens == {k \in 1 .. n :
                      /\ run_of(t, p, mark, k) = k
                      /\ find_char(t, p + k, mark) > p + k
                      /\ find_char(t, p + k, mark) <= Len(t)}
      IN IF opens = {}
           THEN <<t[p]>> \o sub_marked(t, p + 1, mark, n)
           ELSE LET k == Max(opens)
                    close == find_char(t, p + k, mark)
                IN SubSeq(t, p + k, close - 1)
                     \o sub_marked(t, close + run_of(t, close, mark, n), mark, n)

\* The inline-code mark; a text holds it as this one character.
BackTick == "backtick"

clean_text(text) ==
    LET joined == join(<<" ">>, split(text))          \* ' '.join(text.split())
        nobold == sub_marked(joined, 1, "*", 2)       \* the bold/italic pattern
        nocode == sub_marked(nobold, 1, BackTick, 1)       \* the inline-code pattern
    IN strip(nocode)

----------------------------------------------------------------------------
(* KnowledgeBaseManager._parse_qa_pairs *)

QMark == <<"Q", ":">>
AMark == <<"A", ":">>

\* re.sub(r'^#.*$', '', content, flags=re.MULTILINE) from the line that
\* starts at position p on: a line that starts with "#" is emptied, its
\* newline stays.
RECURSIVE strip_headers(_, _, _)
strip_headers(t, p, linestart) ==
    IF p > Len(t) THEN <<>>
    ELSE LET eol == find_char(t, p, "\n")
             line == IF linestart /\ t[p] = "#" THEN <<>> ELSE SubSeq(t, p, eol - 1)
         IN IF eol > Len(t) THEN line
            ELSE line \o <<"\n">> \o strip_headers(t, eol + 1, TRUE)

\* The lookahead (?=\s*Q:|$) at position e (the position after the answer):
\* with re.MULTILINE, $ matches at the end of the text and before a newline.
lookahead(t, e) ==
    \/ at(t, e + wsrun(t, e), QMark)
    \/ e = Len(t) + 1
    \/ t[e] = "\n"

\* \s*A:\s*(.+?)(?=...) can match from position qe: the whitespace run is
\* followed by "A:", and at least one character follows it for (.+?) (the
\* lookahead always succeeds at the end of the text).
answer_can_follow(t, qe) ==
    LET a == qe + wsrun(t, qe) IN at(t, a, AMark) /\ a + 2 <= Len(t)

NoMatch == [ok |-> FALSE]

\* The match of  Q:\s*(.+?)\s*A:\s*(.+?)(?=\s*Q:|$)  (DOTALL | MULTILINE)
\* starting at position s, as the backtracking matcher finds it: the first
\* \s* longest first, the question (.+?) shortest first, the \s* after "A:"
\* longest first, the answer (.+?) shortest first.
match_at(t, s) ==
    LET p1 == s + 2
        ends(w) == {qe \in p1 + w + 1 .. Len(t) + 1 : answer_can_follow(t, qe)}
        W1 == {w \in 0 .. wsrun(t, p1) : ends(w) # {}}
    IN IF ~at(t, s, QMark) \/ W1 = {} THEN NoMatch
       ELSE
         LET qs == p1 + Max(W1)
             qe == Min(ends(Max(W1)))
             a  == qe + wsrun(t, qe)
             w3 == Max({w \in 0 .. wsrun(t, a + 2) : a + 2 + w <= Len(t)})
             as == a + 2 + w3
             ae == Min({e \in as + 1 .. Len(t) + 1 : lookahead(t, e)})
         IN [ok |-> TRUE,
             question |-> SubSeq(t, qs, qe - 1),
             answer |-> SubSeq(t, as, ae - 1),
             answer_start |-> as,
             stop |-> ae]

\* re.findall from position pos on: the leftmost match, then the search
\* resumes where that match ended.  Each match keeps the position where its
\* answer group starts.
RECURSIVE findall(_, _)
findall(t, pos) ==
    LET starts == {s \in pos .. Len(t) : match_at(t, s).ok} IN
    IF starts = {} THEN <<>>
    ELSE LET m == match_at(t, Min(starts))
         IN <<[question |-> m.question, answer |-> m.answer,
               answer_start |-> m.answer_start]>> \o findall(t, m.stop)

\* QAPair.__init__
QAPair(question, answer, index) ==
    [question |-> strip(question), answer |-> strip(answer), index |-> index]

\* The loop over enumerate(matches), from the i-th match on (index i - 1).
RECURSIVE collect_pairs(_, _)
collect_pairs(matches, i) ==
    IF i > Len(matches) THEN <<>>
    ELSE LET question == clean_text(matches[i].question)
             answer == clean_text(matches[i].answer)
         IN (IF question # <<>> /\ answer # <<>>
               THEN <<QAPair(question, answer, i - 1)>>
               ELSE <<>>)
            \o collect_pairs(matches, i + 1)

parse_qa_pairs(content) ==
    collect_pairs(findall(strip_headers(content, 1, TRUE), 1), 1)

----------------------------------------------------------------------------
(* Knowledge sources *)

\* The empty source: ''
SrcEmpty ==
    <<>>

\* Text without any marker: 'a b'
SrcNoMarkers ==
    <<"a", " ", "b">>

\* A question without an answer: 'Q: a'
SrcQuestionOnly ==
    <<"Q", ":", " ", "a">>

\* One pair: 'Q: a\nA: b'
SrcOnePair ==
    <<"Q", ":", " ", "a", "\n",
    "A", ":", " ", "b">>

\* Two pairs separated by a blank line: 'Q: a\nA: b\n\nQ: b\nA: a'
SrcTwoPairs ==
    <<"Q", ":", " ", "a", "\n",
    "A", ":", " ", "b", "\n",
    "\n",
    "Q", ":", " ", "b", "\n",
    "A", ":", " ", "a">>

\* Heading lines and two pairs: '# a\nQ: a b\nA: a\n# b\nQ: b\nA: b b'
SrcWithHeadings ==
    <<"#", " ", "a", "\n",
    "Q", ":", " ", "a", " ", "b", "\n",
    "A", ":", " ", "a", "\n",
    "#", " ", "b", "\n",
    "Q", ":", " ", "b", "\n",
    "A", ":", " ", "b", " ", "b">>

\* An answer written over two lines: 'Q: a\nA: b\na'
SrcTwoLineAnswer ==
    <<"Q", ":", " ", "a", "\n",
    "A", ":", " ", "b", "\n",
    "a">>

\* A first pair whose question cleans to nothing, then one pair: 'Q: * *\nA: a\nQ: b\nA: B a'
SrcEmptiedQuestion ==
    <<"Q", ":", " ", "*", " ", "*", "\n",
    "A", ":", " ", "a", "\n",
    "Q", ":", " ", "b", "\n",
    "A", ":", " ", "B", " ", "a">>

\* Emphasis and inline-code markup: 'Q: *a*\nA: (backtick)b(backtick) a'
SrcMarkup ==
    <<"Q", ":", " ", "*", "a", "*", "\n",
    "A", ":", " ", BackTick, "b", BackTick, " ", "a">>

\* A single pair with blank question and answer: 'Q: A: \n'
SrcOnlyBlankPair ==
    <<"Q", ":", " ", "A", ":", " ", "\n">>

\* Seven pairs, all matching the word a: 'Q: a\nA: b\nQ: a\nA: a\nQ: b\nA: a\nQ: a b\nA: b\nQ: A\nA: c\nQ: a\nA: c\nQ: c\nA: a'
SrcSevenPairs ==
    <<"Q", ":", " ", "a", "\n",
    "A", ":", " ", "b", "\n",
    "Q", ":", " ", "a", "\n",
    "A", ":", " ", "a", "\n",
    "Q", ":", " ", "b", "\n",
    "A", ":", " ", "a", "\n",
    "Q", ":", " ", "a", " ", "b", "\n",
    "A", ":", " ", "b", "\n",
    "Q", ":", " ", "A", "\n",
    "A", ":", " ", "c", "\n",
    "Q", ":", " ", "a", "\n",
    "A", ":", " ", "c", "\n",
    "Q", ":", " ", "c", "\n",
    "A", ":", " ", "a">>

\* The refund and contact pairs:
\* 'Q: What is the refund policy?\nA: Returns within 30 days.\n\n
\*  Q: How do I contact support?\nA: Email support@example.com.'
SrcRefundContact ==
    <<"Q", ":", " ", "W", "h", "a", "t", " ", "i", "s", " ", "t", "h", "e", " ", "r", "e", "f", "u", "n", "d", " ", "p", "o", "l", "i", "c", "y", "?", "\n",
    "A", ":", " ", "R", "e", "t", "u", "r", "n", "s", " ", "w", "i", "t", "h", "i", "n", " ", "3", "0", " ", "d", "a", "y", "s", ".", "\n",
    "\n",
    "Q", ":", " ", "H", "o", "w", " ", "d", "o", " ", "I", " ", "c", "o", "n", "t", "a", "c", "t", " ", "s", "u", "p", "p", "o", "r", "t", "?", "\n",
    "A", ":", " ", "E", "m", "a", "i", "l", " ", "s", "u", "p", "p", "o", "r", "t", "@", "e", "x", "a", "m", "p", "l", "e", ".", "c", "o", "m", ".">>

Sources ==
    {SrcRefundContact,
     SrcEmpty,
     SrcNoMarkers,
     SrcQuestionOnly,
     SrcOnePair,
     SrcTwoPairs,
     SrcWithHeadings,
     SrcTwoLineAnswer,
     SrcEmptiedQuestion,
     SrcMarkup,
     SrcOnlyBlankPair,
     SrcSevenPairs}

----------------------------------------------------------------------------
(* KnowledgeBaseManager: the store and its source file *)

\* The knowledge source on disk: absent, present but not readable as UTF-8
\* text, or a text.
Missing == [kind |-> "missing"]
Unreadable == [kind |-> "unreadable"]
TextFile(content) == [kind |-> "text", content |-> content]
Files == {Missing, Unreadable} \cup {TextFile(s) : s \in Sources}

\* The sources the store is reloaded over.
StoreSources ==
    {SrcEmpty, SrcOnlyBlankPair, SrcOnePair, SrcTwoPairs, SrcEmptiedQuestion}
StoreFiles == {Missing, Unreadable} \cup {TextFile(s) : s \in StoreSources}

\* The body of load_knowledge_base on the file f, for a store holding pairs
\* and raw: the fields it leaves behind and how it ends.
load_knowledge_base_clearing_on_failure(f, pairs, raw) ==
    CASE f.kind \in {"missing", "unreadable"} ->
           [qa_pairs |-> <<>>, raw_content |-> raw,
            outcome |-> "KnowledgeBaseException"]
      [] f.kind = "text" ->
           [qa_pairs |-> parse_qa_pairs(f.content), raw_content |-> f.content,
            outcome |-> IF parse_qa_pairs(f.content) = <<>>
                          THEN "KnowledgeBaseException" ELSE "ok"]
load_knowledge_base_appending(f, pairs, raw) ==
    CASE f.kind = "missing" ->
           [qa_pairs |-> pairs, raw_content |-> raw,
            outcome |-> "KnowledgeBaseException"]
      [] f.kind = "unreadable" ->
           [qa_pairs |-> pairs, raw_content |-> raw,
            outcome |-> "KnowledgeBaseException"]
      [] f.kind = "text" ->
           [qa_pairs |-> pairs \o parse_qa_pairs(f.content),
            raw_content |-> f.content,
            outcome |-> IF pairs \o parse_qa_pairs(f.content) = <<>>
                          THEN "KnowledgeBaseException" ELSE "ok"]
load_knowledge_base_accepting_empty(f, pairs, raw) ==
    CASE f.kind = "missing" ->
           [qa_pairs |-> pairs, raw_content |-> raw,
            outcome |-> "KnowledgeBaseException"]
      [] f.kind = "unreadable" ->
           [qa_pairs |-> pairs, raw_content |-> raw,
            outcome |-> "KnowledgeBaseException"]
      [] f.kind = "text" ->
           [qa_pairs |-> parse_qa_pairs(f.content), raw_content |-> f.content,
            outcome |-> "ok"]
load_knowledge_base(f, pairs, raw) ==
    CASE f.kind = "missing" ->
           \* not self.knowledge_base_path.exists()
           [qa_pairs |-> pairs, raw_content |-> raw,
            outcome |-> "KnowledgeBaseException"]
      [] f.kind = "unreadable" ->
           \* read_text raises; the except clause wraps it
           [qa_pairs |-> pairs, raw_content |-> raw,
            outcome |-> "KnowledgeBaseException"]
      [] f.kind = "text" ->
           [qa_pairs |-> parse_qa_pairs(f.content), raw_content |-> f.content,
            outcome |-> IF parse_qa_pairs(f.content) = <<>>
                          THEN "KnowledgeBaseException" ELSE "ok"]

\* is_loaded
is_loaded(pairs) == Len(pairs) > 0

NoCall == [op |-> "none"]
NoRead == [during |-> "none"]

\* load_knowledge_base() called on the store.
LoadKnowledgeBase ==
    /\ kpc = "idle"
    /\ LET r == load_knowledge_base(file, qa_pairs, raw_content) IN
         /\ qa_pairs' = r.qa_pairs
         /\ raw_content' = r.raw_content
         /\ last' = [op |-> "load", outcome |-> r.outcome, source |-> file.kind]
    /\ before' = qa_pairs
    /\ UNCHANGED <<askVars, kpc, file, seen, call, genVars, answerVars>>

\* reload(), first statement: self.qa_pairs.clear().
ReloadClear ==
    /\ kpc = "idle"
    /\ before' = qa_pairs
    /\ qa_pairs' = <<>>
    /\ kpc' = "reloading"
    /\ UNCHANGED <<askVars, raw_content, last, file, seen, call, genVars, answerVars>>

\* reload(), second statement: self.load_knowledge_base().
ReloadLoad ==
    /\ kpc = "reloading"
    /\ LET r == load_knowledge_base(file, qa_pairs, raw_content) IN
         /\ qa_pairs' = r.qa_pairs
         /\ raw_content' = r.raw_content
         /\ last' = [op |-> "reload", outcome |-> r.outcome, source |-> file.kind]
    /\ kpc' = "idle"
    /\ UNCHANGED <<askVars, before, file, seen, call, genVars, answerVars>>

\* The environment replaces, removes or damages the knowledge source.
WriteSource(f) ==
    /\ file' = f
    /\ file # f
    /\ UNCHANGED <<askVars, qa_pairs, raw_content, kpc, before, last, seen, call, genVars, answerVars>>

\* Another execution context reads the store (is_loaded, get_all_qa_pairs,
\* the context functions): it sees the list the store holds at that moment.
Read ==
    /\ seen' = [during |-> kpc,
                entries |-> qa_pairs,
                is_loaded |-> is_loaded(qa_pairs),
                old |-> IF kpc = "reloading" THEN before ELSE qa_pairs]
    /\ seen' # seen
    /\ UNCHANGED <<askVars, qa_pairs, raw_content, kpc, before, last, file, call, genVars, answerVars>>

\* After construction: qa_pairs = [], _raw_content = "".
InitStore ==
    /\ qa_pairs = <<>>
    /\ raw_content = <<>>
    /\ kpc = "idle"
    /\ before = <<>>
    /\ last = NoCall
    /\ seen = NoRead

NextStore ==
    \/ LoadKnowledgeBase
    \/ ReloadClear
    \/ ReloadLoad
    \/ \E f \in StoreFiles : WriteSource(f)
    \/ Read


----------------------------------------------------------------------------
(* KnowledgeBaseManager: read operations *)

\* An optional integer argument: None, or the integer given.
None == [given |-> FALSE]
Some(n) == [given |-> TRUE, value |-> n]

\* The Python slice s[:k].
slice_to(s, k) ==
    IF k >= 0 THEN SubSeq(s, 1, IF k < Len(s) THEN k ELSE Len(s))
    ELSE SubSeq(s, 1, IF Len(s) + k > 0 THEN Len(s) + k ELSE 0)

QPrefix == <<"Q", ":", " ">>
APrefix == <<"A", ":", " ">>

\* The list built by the loop over the pairs: "Q: ...", "A: ...", "".
RECURSIVE context_parts(_)
context_parts(pairs) ==
    IF pairs = <<>> THEN <<>>
    ELSE <<QPrefix \o Head(pairs).question, APrefix \o Head(pairs).answer, <<>>>>
           \o context_parts(Tail(pairs))

\* "\n".join(context_parts).strip()
format_context(pairs) == strip(join(<<"\n">>, context_parts(pairs)))

\* get_context_for_prompt(max_pairs): max_pairs is None or an integer;
\* "if max_pairs" is false for None and for 0.
get_context_for_prompt(pairs, max_pairs) ==
    LET pairs_to_include ==
          IF max_pairs.given /\ max_pairs.value # 0
            THEN slice_to(pairs, max_pairs.value) ELSE pairs
    IN format_context(pairs_to_include)

\* The score search_by_keywords gives the pair qa for the query.
score_unweighted(query, qa) ==
    LET query_words == set(split(lower(query))) IN
    Cardinality(query_words \cap set(split(lower(qa.question))))
      + Cardinality(query_words \cap set(split(lower(qa.answer))))
score_counting_repeats(query, qa) ==
    LET words(t) == split(lower(t))
        hits(t) == Cardinality({i \in DOMAIN words(query) :
                                  words(query)[i] \in set(words(t))})
    IN (hits(qa.question) * 2) + hits(qa.answer)
score(query, qa) ==
    LET query_words == set(split(lower(query)))
        question_words == set(split(lower(qa.question)))
        answer_words == set(split(lower(qa.answer)))
        question_matches == Cardinality(query_words \cap question_words)
        answer_matches == Cardinality(query_words \cap answer_words)
    IN (question_matches * 2) + answer_matches

\* The list scored_pairs: the pairs with a positive score, in source order.
RECURSIVE scored_pairs(_, _)
scored_pairs(query, pairs) ==
    IF pairs = <<>> THEN <<>>
    ELSE (IF score(query, Head(pairs)) > 0
            THEN <<[score |-> score(query, Head(pairs)), qa |-> Head(pairs)]>>
            ELSE <<>>)
         \o scored_pairs(query, Tail(pairs))

\* list.sort(key=lambda x: x[0], reverse=True): a stable sort, so elements
\* with equal keys keep their order. x goes after every element whose score
\* is at least its own.
insert_before_equal(sorted, x) ==
    LET n == Cardinality({i \in DOMAIN sorted : sorted[i].score > x.score})
    IN SubSeq(sorted, 1, n) \o <<x>> \o SubSeq(sorted, n + 1, Len(sorted))
insert_sorted(sorted, x) ==
    LET n == Cardinality({i \in DOMAIN sorted : sorted[i].score >= x.score})
    IN SubSeq(sorted, 1, n) \o <<x>> \o SubSeq(sorted, n + 1, Len(sorted))

RECURSIVE sort_by_score(_)
sort_by_score(s) ==
    IF s = <<>> THEN <<>>
    ELSE insert_sorted(sort_by_score(SubSeq(s, 1, Len(s) - 1)), s[Len(s)])

DefaultTopK == 5

search_by_keywords(pairs, query, top_k) ==
    LET ranked == slice_to(sort_by_score(scored_pairs(query, pairs)), top_k)
    IN [i \in DOMAIN ranked |-> ranked[i].qa]

\* get_relevant_context(query, method): the text returned or the error raised.
get_relevant_context_without_fallback(pairs, query, method) ==
    CASE method = "all" ->
           [kind |-> "str", text |-> get_context_for_prompt(pairs, None)]
      [] method = "keyword" ->
           [kind |-> "str",
            text |-> format_context(search_by_keywords(pairs, query, DefaultTopK))]
      [] method = "similarity" -> [kind |-> "NotImplementedError"]
      [] OTHER -> [kind |-> "ValueError"]
get_relevant_context_defaulting_to_all(pairs, query, method) ==
    IF method = "keyword"
      THEN LET relevant_pairs == search_by_keywords(pairs, query, DefaultTopK) IN
           IF relevant_pairs = <<>>
             THEN [kind |-> "str", text |-> get_context_for_prompt(pairs, None)]
             ELSE [kind |-> "str", text |-> format_context(relevant_pairs)]
      ELSE [kind |-> "str", text |-> get_context_for_prompt(pairs, None)]
get_relevant_context(pairs, query, method) ==
    CASE method = "all" ->
           [kind |-> "str", text |-> get_context_for_prompt(pairs, None)]
      [] method = "keyword" ->
           LET relevant_pairs == search_by_keywords(pairs, query, DefaultTopK) IN
           IF relevant_pairs = <<>>
             THEN [kind |-> "str", text |-> get_context_for_prompt(pairs, None)]
             ELSE [kind |-> "str", text |-> format_context(relevant_pairs)]
      [] method = "similarity" -> [kind |-> "NotImplementedError"]
      [] OTHER -> [kind |-> "ValueError"]

\* "I want a refund"
QueryRefund ==
    <<"I", " ", "w", "a", "n", "t", " ", "a", " ", "r", "e", "f", "u", "n", "d">>

\* Queries: words in both cases, repeated and reordered, with extra whitespace.
Queries ==
    { <<>>,
      <<"a">>, <<"A">>, <<"b">>, <<"c">>, <<"q">>,
      <<"a", " ", "b">>, <<"b", " ", "a">>, <<"a", " ", "a">>,
      <<"a", " ", " ", "B">>, <<" ", "c", "\n", "a">>, <<"a", "b">>,
      <<"c", " ", "b", " ", "c">>,
      QueryRefund }

Methods == {"all", "keyword", "similarity", "semantic"}

MaxTopK == 3
TopKs == (0 .. MaxTopK) \cup {DefaultTopK}

MaxPairsArg == 2
MaxPairsArgs == {Some(n) : n \in -1 .. MaxPairsArg} \cup {None}

SearchByKeywords(query, top_k) ==
    /\ kpc = "idle"
    /\ call' = [op |-> "search_by_keywords", query |-> query, top_k |-> top_k,
                scored |-> scored_pairs(query, qa_pairs),
                value |-> search_by_keywords(qa_pairs, query, top_k)]
    /\ UNCHANGED <<askVars, storeVars, genVars, answerVars>>

GetRelevantContext(query, method) ==
    /\ kpc = "idle"
    /\ call' = [op |-> "get_relevant_context", query |-> query, method |-> method,
                value |-> get_relevant_context(qa_pairs, query, method)]
    /\ UNCHANGED <<askVars, storeVars, genVars, answerVars>>

\* QAPair.to_dict
to_dict(pair) ==
    [question |-> pair.question, answer |-> pair.answer, index |-> pair.index]

\* get_all_qa_pairs: a new list of new dictionaries.
get_all_qa_pairs(pairs) == [i \in 1 .. Len(pairs) |-> to_dict(pairs[i])]

GetAllQAPairs ==
    /\ kpc = "idle"
    /\ call' = [op |-> "get_all_qa_pairs", value |-> get_all_qa_pairs(qa_pairs)]
    /\ UNCHANGED <<askVars, storeVars, genVars, answerVars>>

GetContextForPrompt_truncating_store(max_pairs) ==
    /\ kpc = "idle"
    /\ call' = [op |-> "get_context_for_prompt", max_pairs |-> max_pairs,
                value |-> get_context_for_prompt(qa_pairs, max_pairs)]
    /\ qa_pairs' = IF max_pairs.given /\ max_pairs.value # 0
                     THEN slice_to(qa_pairs, max_pairs.value) ELSE qa_pairs
    /\ UNCHANGED <<askVars, file, raw_content, kpc, before, last, seen,
                   genVars, answerVars>>
GetContextForPrompt(max_pairs) ==
    /\ kpc = "idle"
    /\ call' = [op |-> "get_context_for_prompt", max_pairs |-> max_pairs,
                value |-> get_context_for_prompt(qa_pairs, max_pairs)]
    /\ UNCHANGED <<askVars, storeVars, genVars, answerVars>>

\* _parse_qa_pairs applied to the text of the source file, as line 78 does.
ParseQAPairs ==
    /\ kpc = "idle"
    /\ file.kind = "text"
    /\ LET content == strip_headers(file.content, 1, TRUE) IN
         call' = [op |-> "_parse_qa_pairs", content |-> content,
                  matches |-> findall(content, 1),
                  value |-> parse_qa_pairs(file.content)]
    /\ UNCHANGED <<askVars, storeVars, genVars, answerVars>>

NextSearch ==
    \/ \E q \in Queries, k \in TopKs : SearchByKeywords(q, k)
    \/ \E q \in Queries, m \in Methods : GetRelevantContext(q, m)
    \/ \E m \in MaxPairsArgs : GetContextForPrompt(m)
    \/ ParseQAPairs

----------------------------------------------------------------------------
(* PromptBuilder.build_customer_support_prompt and CustomerSupportLLM *)

\* The fixed pieces of the template; each is held as one character of the
\* prompt text, the context and the question are spliced in between them.
PromptFraming(company_name) ==
    <<"You are a helpful customer support assistant for ">> \o company_name
      \o <<". Use the following knowledge base to answer the customer's question accurately and concisely.\n\nKnowledge Base:\n">>
PromptInstructions ==
    <<"\n\nInstructions:\n1. Answer based ONLY on the information provided in the knowledge base above\n2. If the exact answer isn't in the knowledge base, provide the most relevant information available\n3. Be concise and direct in your response\n4. Maintain a professional and friendly tone\n5. If you cannot find relevant information, politely say so and suggest contacting support directly\n6. Do not make up information that isn't in the knowledge base">>
PromptExamples == <<"\n\nExample interactions:\n...">>
PromptQuestionLabel == <<"\n\nCustomer Question: ">>
PromptAnswerCue == <<"\n\nAnswer:">>

build_customer_support_prompt(question, context, company_name, include_examples) ==
    PromptFraming(company_name) \o context \o PromptInstructions
      \o (IF include_examples THEN PromptExamples ELSE <<>>)
      \o PromptQuestionLabel \o question \o PromptAnswerCue

NoAnswer == [op |-> "none"]

\* CustomerSupportLLM.build_prompt
build_prompt_remembering(question, context) ==
    build_customer_support_prompt(
        question,
        IF ans # NoAnswer /\ "context" \in DOMAIN ans THEN ans.context ELSE context,
        <<"our company">>, FALSE)
build_prompt(question, context) ==
    build_customer_support_prompt(question, context, <<"our company">>, FALSE)

\* The context used when no knowledge base is loaded.
PlaceholderContext ==
    <<"No knowledge base loaded. Please provide general assistance.">>

\* retry_count of generate when the caller passes none.
DefaultRetryCount == 2

\* The context answer_question selects, or the error the selection raises.
select_context_by_method_only(kb, pairs, question, context_method, max_context_pairs) ==
    IF context_method = "all"
      THEN [kind |-> "str",
            text |-> get_context_for_prompt(pairs, Some(max_context_pairs))]
      ELSE get_relevant_context(pairs, question, context_method)
select_context(kb, pairs, question, context_method, max_context_pairs) ==
    IF kb # "None" /\ is_loaded(pairs)
      THEN IF context_method = "all"
             THEN [kind |-> "str",
                   text |-> get_context_for_prompt(pairs, Some(max_context_pairs))]
             ELSE get_relevant_context(pairs, question, context_method)
      ELSE [kind |-> "str", text |-> PlaceholderContext]

\* What answer_question hands its caller when generate ended with res: the
\* result dictionary, or the exception re-raised by the except clause.
\* (processing_time is wall-clock time and is left out.)
answer_outcome_wrapping_errors(res, context_method, context) ==
    IF res.kind \in {"str", "None"}
      THEN [kind |-> "dict",
            answer |-> IF res.kind = "str" THEN res.text ELSE <<>>,
            context_method |-> context_method,
            context_length |-> Len(context)]
      ELSE [kind |-> "LLMException", message |-> "Failed to answer question",
            details |-> NoDetails]
answer_outcome(res, context_method, context) ==
    IF res.kind \in {"str", "None"}
      THEN [kind |-> "dict",
            answer |-> IF res.kind = "str" THEN res.text ELSE <<>>,
            context_method |-> context_method,
            context_length |-> Len(context)]
      ELSE res

NoProbe == [op |-> "none"]

\* answer_question up to the call of generate: the context is selected and the
\* prompt is built; an error of the selection leaves through the except clause.
AnswerStart(question, context_method, max_context_pairs) ==
    /\ apc = "idle"
    /\ gpc = "idle"
    /\ kpc = "idle"
    /\ LET c == select_context(knowledge_base, qa_pairs, question,
                               context_method, max_context_pairs)
           args == [op |-> "answer_question", question |-> question,
                    context_method |-> context_method,
                    max_context_pairs |-> max_context_pairs]
       IN IF c.kind = "str"
            THEN /\ ans' = [args |-> args, context |-> c.text,
                            prompt |-> build_prompt(question, c.text),
                            outcome |-> NoResult]
                 /\ apc' = "generating"
                 /\ GenerateStart(DefaultRetryCount)
            ELSE /\ ans' = [args |-> args, outcome |-> c]
                 /\ apc' = "done"
                 /\ UNCHANGED genVars
    /\ UNCHANGED <<storeVars, call, knowledge_base, probe>>

\* answer_question called directly on the wrapper.
AnswerQuestion(question, context_method, max_context_pairs) ==
    /\ rpc = "idle"
    /\ AnswerStart(question, context_method, max_context_pairs)
    /\ UNCHANGED askVars

\* generate has ended: answer_question returns its dictionary or re-raises.
AnswerFinish ==
    /\ apc = "generating"
    /\ gpc = "done"
    /\ ans' = [ans EXCEPT !.outcome =
                 answer_outcome(result, ans.args.context_method, ans.context)]
    /\ apc' = "done"
    /\ gpc' = "idle"
    /\ UNCHANGED <<askVars, retry_count, attempt, posts, pauses, result,
                   storeVars, call, knowledge_base, probe>>

\* The caller takes the outcome.
AnswerReturn ==
    /\ apc = "done"
    /\ rpc = "idle"
    /\ apc' = "idle"
    /\ ans' = NoAnswer
    /\ retry_count' = 0
    /\ attempt' = 0
    /\ posts' = <<>>
    /\ pauses' = 0
    /\ result' = NoResult
    /\ UNCHANGED <<askVars, gpc, storeVars, call, knowledge_base, probe>>

\* build_prompt called on its own, at any moment.
BuildPrompt(question, context) ==
    /\ call' = [op |-> "build_prompt", question |-> question,
                context |-> context, value |-> build_prompt(question, context)]
    /\ call' # call
    /\ UNCHANGED <<askVars, storeVars, genVars, answerVars>>

NoResponse == [status_code |-> 0]

InitAsk ==
    /\ rpc = "idle"
    /\ client = "none"
    /\ probes = <<>>
    /\ stored = "none"
    /\ ask_response = NoResponse

InitAnswer ==
    /\ knowledge_base = "None"
    /\ apc = "idle"
    /\ ans = NoAnswer
    /\ probe = NoProbe
    /\ InitAsk

Questions == { <<"a">>, <<"c", " ", "b">>, <<"q">> }
MaxContextPairs == 1
ContextPairsArgs == (0 .. MaxContextPairs) \cup {DefaultTopK}
AnswerSources == {SrcEmpty, SrcOnePair, SrcTwoPairs, SrcSevenPairs}
AnswerFiles == {Missing} \cup {TextFile(src) : src \in AnswerSources}

PromptQuestions == {<<"a">>, <<" ", "q", "?", " ">>}
PromptContexts == {<<>>, <<"Q", ":", " ", "a", "\n", "A", ":", " ", "b">>}

NextAnswer ==
    \/ \E q \in Questions, m \in Methods, n \in ContextPairsArgs :
          AnswerQuestion(q, m, n)
    \/ \E q \in PromptQuestions, c \in PromptContexts : BuildPrompt(q, c)
    \/ \E o \in PostOutcomes : Post(o)
    \/ AnswerFinish
    \/ AnswerReturn

----------------------------------------------------------------------------
(* OllamaClient.check_connection and check_model_available *)

RECURSIVE find_colon(_, _)
\* The position of the first colon at or after i (Len + 1 if there is none).
find_colon(t, i) ==
    IF i > Len(t) THEN i
    ELSE IF t[i] = ":" THEN i ELSE find_colon(t, i + 1)

\* str.split(":")[0]: the text before the first colon (all of it if none).
model_base_of(model) ==
    LET i == find_colon(model, 1) IN SubSeq(model, 1, i - 1)

\* Python "sub in m" on strings: sub occurs somewhere in m.
contains(sub, m) ==
    \E i \in 0 .. (Len(m) - Len(sub)) : SubSeq(m, i + 1, i + Len(sub)) = sub

startswith(sub, m) ==
    Len(sub) <= Len(m) /\ SubSeq(m, 1, Len(sub)) = sub

\* An entry of the "models" list: a dictionary with or without a "name".
Named(name) == [has_name |-> TRUE, name |-> name]
Unnamed == [has_name |-> FALSE]

\* The decoded body of a response.
BadJson == [kind |-> "bad_json"]
NotADict == [kind |-> "list"]
NoModelsKey == [kind |-> "dict", has_models |-> FALSE]
Listing(models) == [kind |-> "dict", has_models |-> TRUE, models |-> models]

\* What client.get() does: raise, or return a response.
GetTimeout == [kind |-> "timeout"]
GetTransport == [kind |-> "transport"]
Response(status_code, body) ==
    [kind |-> "response", status_code |-> status_code, body |-> body]

check_connection_accepting_2xx(response) ==
    IF response.kind # "response" THEN FALSE
    ELSE response.status_code \in 200 .. 299
check_connection(response) ==
    IF response.kind # "response" THEN FALSE
    ELSE response.status_code = 200

check_model_available(model, response) ==
    IF response.kind # "response" THEN FALSE
    ELSE IF response.status_code = 200
      THEN LET data == response.body IN
           IF data.kind # "dict" THEN FALSE
           ELSE LET listed == IF data.has_models THEN data.models ELSE <<>> IN
                IF \E i \in 1 .. Len(listed) : ~listed[i].has_name THEN FALSE
                ELSE LET models == [i \in 1 .. Len(listed) |-> listed[i].name]
                         model_base == model_base_of(model)
                     IN \E i \in 1 .. Len(models) : contains(model_base, models[i])
      ELSE FALSE

CheckConnection(response) ==
    /\ probe = NoProbe
    /\ probe' = [op |-> "check_connection", response |-> response,
                 value |-> check_connection(response)]
    /\ UNCHANGED <<askVars, genVars, storeVars, call, knowledge_base, apc, ans>>

CheckModelAvailable(model, response) ==
    /\ probe = NoProbe
    /\ probe' = [op |-> "check_model_available", model |-> model,
                 response |-> response,
                 value |-> check_model_available(model, response)]
    /\ UNCHANGED <<askVars, genVars, storeVars, call, knowledge_base, apc, ans>>

\* The probe has returned; the client is ready for the next one.
ProbeReturn ==
    /\ probe # NoProbe
    /\ probe' = NoProbe
    /\ UNCHANGED <<askVars, genVars, storeVars, call, knowledge_base, apc, ans>>

ModelM == <<"m">>
ModelMTagged == <<"m", ":", "l">>
ModelX == <<"x", ":", "l">>
ModelNoBase == <<":", "l">>
Models == {ModelM, ModelMTagged, ModelX, ModelNoBase}
ListedNames == { <<"m">>, <<"m", ":", "l">>, <<"m", "x", ":", "l">>,
                 <<"x", "m", ":", "l">>, <<"x", ":", "l">>, <<"y">> }
ListedEntries == {Named(n) : n \in ListedNames} \cup {Unnamed}
MaxListed == 2
Listings == UNION {[1 .. k -> ListedEntries] : k \in 0 .. MaxListed}
ProbeBodies == {BadJson, NotADict, NoModelsKey} \cup {Listing(l) : l \in Listings}
ProbeStatusCodes == {200, 204, 404, 500}
ProbeResponses ==
    {GetTimeout, GetTransport}
      \cup {Response(c, b) : c \in ProbeStatusCodes, b \in ProbeBodies}

NextProbe ==
    \/ \E r \in ProbeResponses : CheckConnection(r)
    \/ \E m \in Models, r \in ProbeResponses : CheckModelAvailable(m, r)
    \/ ProbeReturn

----------------------------------------------------------------------------
(* ask_question, the handler of POST /ask (app/api/routes/ask.py), with    *)
(* CustomerSupportLLM.__init__ and the lifespan of app/main.py             *)

\* max_context_pairs of answer_question when the caller passes none.
DefaultMaxContextPairs == 5

\* raise HTTPException(status_code=..., detail=...)
HTTPException(status_code, detail) ==
    [kind |-> "HTTPException", status_code |-> status_code, detail |-> detail]

\* The three except clauses of the handler, in their order: what the handler
\* raises for an exception that leaves its try block.
ask_error_passing_http(e) ==
    CASE e.kind = "OllamaConnectionException" ->
           HTTPException(503, "AI service is currently unavailable. Please ensure Ollama is running.")
      [] e.kind = "LLMException" ->
           HTTPException(500, "Failed to generate answer")
      [] e.kind = "HTTPException" -> e
      [] OTHER ->
           HTTPException(500, "An unexpected error occurred. Please try again.")
ask_error(e) ==
    CASE e.kind = "OllamaConnectionException" ->
           HTTPException(503, "AI service is currently unavailable. Please ensure Ollama is running.")
      [] e.kind = "LLMException" ->
           HTTPException(500, "Failed to generate answer")
      [] OTHER ->
           HTTPException(500, "An unexpected error occurred. Please try again.")

\* CustomerSupportLLM.__init__ after check_connection returned connected:
\* what it raises, or NoResult when it goes on.
init_after_connection_ignoring_probe(connected) == NoResult
init_after_connection(connected) ==
    IF ~connected
      THEN RaisedConn([message |-> "Please ensure Ollama is running"])
      ELSE NoResult

\* The AskResponse of the handler once the answer is there: query_repo.create
\* returned a row with the identifier id, or raised.
AskResponse(answer, question_id) ==
    [status_code |-> 200, answer |-> answer, question_id |-> question_id]
response_after_store_failing(answer, db) ==
    IF db.kind = "row" THEN AskResponse(answer, db.id)
    ELSE ask_error([kind |-> "Exception"])
response_after_store(answer, db) ==
    IF db.kind = "row" THEN AskResponse(answer, db.id)
    ELSE AskResponse(answer, 0)

\* The request arrives (validated by AskRequest): the knowledge-base test,
\* then CustomerSupportLLM(...) creates its OllamaClient.
AskStart(question, context_method) ==
    /\ rpc = "idle"
    /\ apc = "idle"
    /\ gpc = "idle"
    /\ probes' = <<>>
    /\ stored' = "none"
    /\ IF knowledge_base = "None"
         THEN /\ ask_response' =
                   ask_error(HTTPException(503, "Knowledge base not loaded. Please try again later."))
              /\ rpc' = "done"
              /\ client' = "none"
              /\ UNCHANGED ans
         ELSE /\ ask_response' = NoResponse
              /\ rpc' = "constructing"
              /\ client' = "open"
              /\ ans' = [args |-> [op |-> "ask", question |-> question,
                                   context_method |-> context_method]]
    /\ UNCHANGED <<genVars, storeVars, call, knowledge_base, apc, probe>>

\* __init__: if not self.ollama_client.check_connection(): raise ...
AskCheckConnection(r) ==
    /\ rpc = "constructing"
    /\ probes' = Append(probes, [op |-> "check_connection",
                                 value |-> check_connection(r)])
    /\ LET e == init_after_connection(check_connection(r)) IN
         IF e = NoResult
           THEN /\ rpc' = "checking_model"
                /\ UNCHANGED ask_response
           ELSE \* llm was never bound: the finally clause is not reached
                /\ rpc' = "done"
                /\ ask_response' = ask_error(e)
    /\ UNCHANGED <<genVars, storeVars, call, answerVars, client, stored>>

\* __init__: if not self.ollama_client.check_model_available(): warning.
AskCheckModel(model, r) ==
    /\ rpc = "checking_model"
    /\ probes' = Append(probes, [op |-> "check_model_available",
                                 value |-> check_model_available(model, r)])
    /\ rpc' = "constructed"
    /\ UNCHANGED <<genVars, storeVars, call, answerVars, client, stored,
                   ask_response>>

\* llm.answer_question(question, context_method, temperature, max_tokens)
AskAnswer ==
    /\ rpc = "constructed"
    /\ AnswerStart(ans.args.question, ans.args.context_method,
                   DefaultMaxContextPairs)
    /\ rpc' = "answering"
    /\ UNCHANGED <<client, probes, stored, ask_response>>

\* answer_question has ended: finally llm.close(), then the handler goes on
\* with the answer or an except clause takes the error.
AskClose ==
    /\ rpc = "answering"
    /\ apc = "done"
    /\ client' = "closed"
    /\ IF ans.outcome.kind = "dict"
         THEN /\ rpc' = "storing"
              /\ UNCHANGED ask_response
         ELSE /\ rpc' = "done"
              /\ ask_response' = ask_error(ans.outcome)
    /\ UNCHANGED <<genVars, storeVars, call, answerVars, probes, stored>>

\* query_repo.create(...) and the response built in either case.
AskStore(db) ==
    /\ rpc = "storing"
    /\ stored' = IF db.kind = "row" THEN "ok" ELSE "raised"
    /\ ask_response' = response_after_store(ans.outcome.answer, db)
    /\ rpc' = "done"
    /\ UNCHANGED <<genVars, storeVars, call, answerVars, client, probes>>

\* The response is sent; the next request starts afresh.
AskReturn ==
    /\ rpc = "done"
    /\ rpc' = "idle"
    /\ client' = "none"
    /\ probes' = <<>>
    /\ stored' = "none"
    /\ ask_response' = NoResponse
    /\ apc' = "idle"
    /\ ans' = NoAnswer
    /\ gpc' = "idle"
    /\ retry_count' = 0
    /\ attempt' = 0
    /\ posts' = <<>>
    /\ pauses' = 0
    /\ result' = NoResult
    /\ UNCHANGED <<storeVars, call, knowledge_base, probe>>

AskQuestions == { <<"c", " ", "b">>, <<"a", " ", "q">> }
AskMethods == {"all", "keyword"}
DbOutcomes == {[kind |-> "row", id |-> 1], [kind |-> "row", id |-> 2],
               [kind |-> "raises"]}

NextAsk ==
    \/ \E q \in AskQuestions, m \in AskMethods : AskStart(q, m)
    \/ \E r \in ProbeResponses : AskCheckConnection(r)
    \/ \E m \in Models, r \in ProbeResponses : AskCheckModel(m, r)
    \/ AskAnswer
    \/ \E o \in PostOutcomes : Post(o)
    \/ AnswerFinish
    \/ AskClose
    \/ \E db \in DbOutcomes : AskStore(db)
    \/ AskReturn

----------------------------------------------------------------------------
(* The store in use: reads and answers between loads and reloads *)

UseQueries == {<<"a">>}
UseMethods == {"all", "keyword", "semantic"}
UsePostOutcomes ==
    {[kind |-> "timeout"], [kind |-> "ok", response |-> <<"o", "k">>],
     [kind |-> "status", status_code |-> 500, text |-> <<"e", "r", "r">>]}
UseFiles == {Missing, TextFile(SrcOnePair), TextFile(SrcTwoPairs)}

NextUse ==
    \/ apc = "idle" /\ GetAllQAPairs
    \/ apc = "idle" /\ \E m \in {None, Some(1)} : GetContextForPrompt(m)
    \/ apc = "idle" /\ \E q \in UseQueries : SearchByKeywords(q, DefaultTopK)
    \/ apc = "idle" /\ \E q \in UseQueries, m \in UseMethods :
                          GetRelevantContext(q, m)
    \/ \E q \in UseQueries, m \in UseMethods :
          AnswerQuestion(q, m, DefaultMaxContextPairs)
    \/ \E o \in UsePostOutcomes : Post(o)
    \/ AnswerFinish
    \/ AnswerReturn
    \/ apc = "idle" /\ LoadKnowledgeBase
    \/ apc = "idle" /\ ReloadClear
    \/ apc = "idle" /\ ReloadLoad
    \/ apc = "idle" /\ \E f \in UseFiles : WriteSource(f)

----------------------------------------------------------------------------
(* Specifications *)

InitGenerateSpec ==
    /\ InitGenerate
    /\ InitStore
    /\ file = Missing
    /\ call = NoCall
    /\ InitAnswer

NextGenerate ==
    \/ \E r \in -1 .. MaxRetry : GenerateCall(r)
    \/ \E o \in PostOutcomes : Post(o)
    \/ GenerateReturn

\* generate, driven by every backend behaviour.
SpecGenerate == InitGenerateSpec /\ [][NextGenerate]_vars

\* generate with a backend whose POST always ends: it answers, fails, or the
\* client's configured timeout expires.
SpecGenerateLive ==
    SpecGenerate /\ WF_vars(\E o \in PostOutcomes : Post(o))

InitStoreSpec ==
    /\ InitStore
    /\ file \in StoreFiles
    /\ call = NoCall
    /\ InitGenerate
    /\ InitAnswer

\* The store under load, reload, concurrent reads and changes of the source.
SpecStore == InitStoreSpec /\ [][NextStore]_vars

\* The store as a finished load_knowledge_base() call leaves it, for every
\* source: loaded, or empty when the load failed.
InitSearchSpec ==
    /\ file \in Files
    /\ LET r == load_knowledge_base(file, <<>>, <<>>) IN
         /\ qa_pairs = r.qa_pairs
         /\ raw_content = r.raw_content
         /\ last = [op |-> "load", outcome |-> r.outcome, source |-> file.kind]
    /\ kpc = "idle"
    /\ before = <<>>
    /\ seen = NoRead
    /\ call = NoCall
    /\ InitGenerate
    /\ InitAnswer

\* A CustomerSupportLLM built without a knowledge base or over the store as
\* a finished load_knowledge_base() call leaves it.
InitAnswerSpec ==
    /\ file \in AnswerFiles
    /\ LET r == load_knowledge_base(file, <<>>, <<>>) IN
         /\ qa_pairs = r.qa_pairs
         /\ raw_content = r.raw_content
         /\ last = [op |-> "load", outcome |-> r.outcome, source |-> file.kind]
    /\ kpc = "idle"
    /\ before = <<>>
    /\ seen = NoRead
    /\ call = NoCall
    /\ InitGenerate
    /\ knowledge_base \in {"None", "manager"}
    /\ apc = "idle"
    /\ ans = NoAnswer
    /\ probe = NoProbe
    /\ InitAsk

\* The application after its lifespan startup: app.state.knowledge_base is
\* the manager when load_knowledge_base() succeeded and None when it raised.
InitAskSpec ==
    /\ file \in AnswerFiles
    /\ LET r == load_knowledge_base(file, <<>>, <<>>) IN
         /\ qa_pairs = r.qa_pairs
         /\ raw_content = r.raw_content
         /\ last = [op |-> "load", outcome |-> r.outcome, source |-> file.kind]
         /\ knowledge_base = IF r.outcome = "ok" THEN "manager" ELSE "None"
    /\ kpc = "idle"
    /\ before = <<>>
    /\ seen = NoRead
    /\ call = NoCall
    /\ InitGenerate
    /\ apc = "idle"
    /\ ans = NoAnswer
    /\ probe = NoProbe
    /\ InitAsk

\* POST /ask requests, one after the other, driven by every backend and
\* database behaviour.
SpecAsk == InitAskSpec /\ [][NextAsk]_vars

InitUseSpec ==
    /\ InitStore
    /\ file \in UseFiles
    /\ call = NoCall
    /\ InitGenerate
    /\ knowledge_base = "manager"
    /\ apc = "idle"
    /\ ans = NoAnswer
    /\ probe = NoProbe
    /\ InitAsk

\* A store that is loaded and reloaded between the reads and the
\* answer_question calls of one caller.
SpecUse == InitUseSpec /\ [][NextUse]_vars

\* answer_question, driven by every backend behaviour.
SpecAnswer == InitAnswerSpec /\ [][NextAnswer]_vars

\* The two probes of OllamaClient, driven by every backend behaviour.
SpecProbe == InitGenerateSpec /\ [][NextProbe]_vars

\* The read operations applied to every loaded store, for every query.
SpecSearch == InitSearchSpec /\ [][NextSearch]_vars

----------------------------------------------------------------------------
(* Properties of generate, checked under SpecGenerate *)

IsTimeout(o) == o.kind = "timeout"
AllTimeouts == \A i \in DOMAIN posts : IsTimeout(posts[i])
\* The first Len(posts) - 1 requests timed out and the last one did not.
TimeoutsThenLast ==
    /\ posts # <<>>
    /\ \A i \in 1 .. Len(posts) - 1 : IsTimeout(posts[i])
    /\ ~IsTimeout(posts[Len(posts)])
Last == posts[Len(posts)]
IsGenerationError(res) == res.kind = "LLMException"

\* C1: with a retry budget r >= 0 and a backend that times out on every
\* attempt, generate raises OllamaConnectionException after exactly r + 1
\* requests: it has not ended before the (r+1)-th request, and it sends no more.
C1_TimeoutExhaustion ==
    (retry_count >= 0 /\ AllTimeouts) =>
        IF gpc = "done"
          THEN /\ result.kind = "OllamaConnectionException"
               /\ Len(posts) = retry_count + 1
          ELSE /\ Len(posts) < retry_count + 1
               /\ result = NoResult

C1_Witness ==
    /\ gpc = "done"
    /\ retry_count >= 2
    /\ AllTimeouts
    /\ Len(posts) = retry_count + 1
    /\ result.kind = "OllamaConnectionException"

\* C2 as stated: after k <= r timeouts followed by a non-empty text, generate
\* returns exactly that text, after k + 1 requests and k pauses.
C2_ReturnsThatText ==
    (/\ gpc = "done"
     /\ retry_count >= 0
     /\ TimeoutsThenLast
     /\ Last.kind = "ok"
     /\ Last.response # <<>>) =>
        /\ result = Returned(Last.response)
        /\ Len(posts) - 1 <= retry_count
        /\ pauses = Len(posts) - 1

\* C2 amended: after k <= r timeouts followed by a non-empty text, generate
\* returns that text with its surrounding whitespace removed, after exactly
\* k + 1 requests and exactly k pauses (none after the final attempt).
C2_ReturnsStrippedText ==
    (/\ gpc = "done"
     /\ retry_count >= 0
     /\ TimeoutsThenLast
     /\ Last.kind = "ok"
     /\ Last.response # <<>>) =>
        /\ result = Returned(strip(Last.response))
        /\ Len(posts) - 1 <= retry_count
        /\ pauses = Len(posts) - 1

C2_Witness ==
    /\ gpc = "done"
    /\ retry_count >= 2
    /\ Len(posts) = retry_count + 1
    /\ TimeoutsThenLast
    /\ Last.kind = "ok"
    /\ Last.response = <<" ", "o", "k">>
    /\ result = Returned(<<"o", "k">>)
    /\ pauses = retry_count

C6_EmptyPayloadFails ==
    \A i \in DOMAIN posts :
        (posts[i].kind \in {"ok", "ok_no_key"} /\ generated_text(posts[i]) = <<>>) =>
            /\ i = Len(posts)
            /\ gpc = "done"
            /\ IsGenerationError(result)

C6_Witness ==
    /\ gpc = "done"
    /\ retry_count >= 1
    /\ attempt < retry_count
    /\ posts # <<>>
    /\ Last.kind \in {"ok", "ok_no_key"}
    /\ generated_text(Last) = <<>>
    /\ IsGenerationError(result)

----------------------------------------------------------------------------
(* Properties of the store, checked under SpecStore *)

\* C3: when reload() fails, the store holds afterwards exactly the entry
\* sequence it held when reload() was called.
C3_FailedReloadKeepsEntries ==
    (kpc = "idle" /\ last.op = "reload" /\ last.outcome # "ok") =>
        /\ qa_pairs = before
        /\ is_loaded(qa_pairs) = is_loaded(before)

\* C4: a reader running while reload() runs sees the complete entry sequence
\* held before the reload or a complete newly loaded one, never an empty or
\* partly rebuilt one.
C4_ReaderSeesOldOrNew ==
    seen.during = "reloading" =>
        \/ seen.entries = seen.old
        \/ /\ seen.entries # <<>>
           /\ \E src \in StoreSources : seen.entries = parse_qa_pairs(src)

\* C7: after a load that returns, the store holds at least one entry, and a
\* load whose source text parses to no entry (the empty text included) raises
\* KnowledgeBaseException.
C7_LoadedMeansNonEmpty ==
    (kpc = "idle" /\ last.op \in {"load", "reload"}) =>
        /\ last.outcome = "ok" => (Len(qa_pairs) >= 1 /\ is_loaded(qa_pairs))
        /\ (last.source = "text" /\ parse_qa_pairs(raw_content) = <<>>)
              => last.outcome = "KnowledgeBaseException"
        /\ (last.source = "text" /\ qa_pairs = <<>>)
              => last.outcome = "KnowledgeBaseException"

C7_Witness ==
    /\ kpc = "idle"
    /\ last = [op |-> "load", outcome |-> "KnowledgeBaseException", source |-> "text"]
    /\ file = TextFile(SrcEmpty)
    /\ raw_content = <<>>
    /\ qa_pairs = <<>>

----------------------------------------------------------------------------
(* Properties of the read operations, checked under SpecSearch *)

\* The characters i..j of t are one whitespace-delimited word.
IsWordAt(t, i, j) ==
    /\ 1 <= i /\ i <= j /\ j <= Len(t)
    /\ \A k \in i .. j : t[k] \notin Whitespace
    /\ i = 1 \/ t[i - 1] \in Whitespace
    /\ j = Len(t) \/ t[j + 1] \in Whitespace

\* The distinct whitespace-delimited words of t, in lower case.
LowerWords(t) ==
    { [k \in 1 .. (p[2] - p[1] + 1) |-> lower_char(t[p[1] + k - 1])] :
        p \in {pp \in (1 .. Len(t)) \X (1 .. Len(t)) : IsWordAt(t, pp[1], pp[2])} }

Shared(query, text) == Cardinality(LowerWords(query) \cap LowerWords(text))

\* The score the specification gives an entry.
ExpectedScore(query, qa) ==
    2 * Shared(query, qa.question) + Shared(query, qa.answer)

\* The positions of the entries with a positive expected score.
Matching(query) ==
    {i \in DOMAIN qa_pairs : ExpectedScore(query, qa_pairs[i]) > 0}

Reverse(seq) == [i \in DOMAIN seq |-> seq[Len(seq) + 1 - i]]
Repeated(text) == text \o <<" ">> \o text
Reordered(text) == join(<<"\n">>, Reverse(split(text)))

\* C8: search_by_keywords returns no entry of score 0, at most top_k entries,
\* and a sequence that is non-increasing by score with entries of equal score
\* in ascending ordinal order.
C8_SearchOrdered ==
    call.op = "search_by_keywords" =>
        LET v == call.value
            sc(i) == score(call.query, v[i])
        IN /\ \A i \in DOMAIN v : \E j \in DOMAIN qa_pairs : v[i] = qa_pairs[j]
           /\ \A i \in DOMAIN v : sc(i) > 0
           /\ Len(v) <= call.top_k
           /\ \A i \in 1 .. Len(v) - 1 :
                \/ sc(i) > sc(i + 1)
                \/ sc(i) = sc(i + 1) /\ v[i].index < v[i + 1].index

C8_Witness ==
    /\ call.op = "search_by_keywords"
    /\ call.top_k = 3
    /\ Len(call.value) = 3
    /\ Len(call.scored) > 3
    /\ score(call.query, call.value[1]) > score(call.query, call.value[2])
    /\ score(call.query, call.value[2]) = score(call.query, call.value[3])
    /\ \E i \in DOMAIN qa_pairs : score(call.query, qa_pairs[i]) = 0

\* C9: the score of an entry is twice the number of distinct lower-case words
\* the query shares with its question plus the number it shares with its
\* answer; repeating or reordering the words of the query or of the entry
\* leaves the score unchanged.
C9_ScoreFormula ==
    call.op = "search_by_keywords" =>
        LET q == call.query
            pos == Matching(q)
        IN /\ Len(call.scored) = Cardinality(pos)
           /\ \A i \in pos :
                call.scored[Cardinality({j \in pos : j <= i})]
                  = [score |-> ExpectedScore(q, qa_pairs[i]), qa |-> qa_pairs[i]]
           /\ \A i \in DOMAIN qa_pairs :
                LET e == qa_pairs[i] IN
                /\ score(q, e) = ExpectedScore(q, e)
                /\ score(Repeated(q), e) = score(q, e)
                /\ score(Reordered(q), e) = score(q, e)
                /\ score(q, [e EXCEPT !.question = Repeated(@),
                                      !.answer = Reordered(@)]) = score(q, e)

C9_Witness ==
    /\ call.op = "search_by_keywords"
    /\ call.query = <<"a", " ", " ", "B">>
    /\ \E i \in DOMAIN call.scored :
         /\ call.scored[i].score = 5
         /\ call.scored[i].qa.question = <<"a", " ", "b">>

\* The lines of a text: the pieces between its newlines.
RECURSIVE Lines(_)
Lines(t) ==
    LET n == find_char(t, 1, "\n") IN
    IF n > Len(t) THEN <<t>>
    ELSE <<SubSeq(t, 1, n - 1)>> \o Lines(SubSeq(t, n + 1, Len(t)))

\* The lines of the entries shown as Q:/A: pairs, a blank line between pairs.
PairLines(entries) ==
    [k \in 1 .. (3 * Len(entries) - 1) |->
        CASE k % 3 = 1 -> <<"Q", ":", " ">> \o entries[(k + 2) \div 3].question
          [] k % 3 = 2 -> <<"A", ":", " ">> \o entries[(k + 1) \div 3].answer
          [] OTHER -> <<>>]

\* The rank of the matching entry at position i: entries of higher score come
\* first, and among equal scores the earlier entry.
Rank(query, i) ==
    1 + Cardinality({j \in Matching(query) :
            \/ ExpectedScore(query, qa_pairs[j]) > ExpectedScore(query, qa_pairs[i])
            \/ /\ ExpectedScore(query, qa_pairs[j]) = ExpectedScore(query, qa_pairs[i])
               /\ j < i})

\* The ranked top-K entries.
TopRanked(query, k) ==
    LET n == IF Cardinality(Matching(query)) < k
               THEN Cardinality(Matching(query)) ELSE k
    IN [r \in 1 .. n |->
          qa_pairs[CHOOSE i \in Matching(query) : Rank(query, i) = r]]

\* C10: with method "keyword" on a loaded knowledge base, when no entry has a
\* positive score the context is the formatted full knowledge base (the text
\* of method "all" without a cap) and is not empty; when some entry has, it
\* is exactly the ranked top-K entries as Q:/A: pairs.
C10_KeywordContext ==
    (/\ call.op = "get_relevant_context"
     /\ call.method = "keyword"
     /\ is_loaded(qa_pairs)) =>
        /\ call.value.kind = "str"
        /\ IF Matching(call.query) = {}
             THEN /\ call.value.text = get_context_for_prompt(qa_pairs, None)
                  /\ call.value = get_relevant_context(qa_pairs, call.query, "all")
                  /\ Lines(call.value.text) = PairLines(qa_pairs)
                  /\ call.value.text # <<>>
             ELSE Lines(call.value.text)
                    = PairLines(TopRanked(call.query, DefaultTopK))

C10_Witness ==
    /\ call.op = "get_relevant_context"
    /\ call.method = "keyword"
    /\ Len(qa_pairs) = 2
    /\ Matching(call.query) = {}
    /\ call.query # <<>>
    /\ Len(Lines(call.value.text)) = 5

\* The state after get_relevant_context("I want a refund", "keyword") on the
\* store loaded from the refund and contact pairs.
RefundScenario ==
    /\ file = TextFile(SrcRefundContact)
    /\ Len(qa_pairs) = 2
    /\ call.op = "get_relevant_context"
    /\ call.method = "keyword"
    /\ call.query = QueryRefund

RefundLines == PairLines(<<qa_pairs[1]>>)
ContactLines == PairLines(<<qa_pairs[2]>>)
HasLine(text, line) == \E i \in DOMAIN Lines(text) : Lines(text)[i] = line

\* C11 as stated: on the refund and contact pairs, the query "I want a
\* refund" gives the refund entry score 2 and the contact entry score 0, and
\* the keyword context holds the refund entry and not the contact entry.
C11_ContactExcluded ==
    RefundScenario =>
        /\ score(call.query, qa_pairs[1]) = 2
        /\ score(call.query, qa_pairs[2]) = 0
        /\ \A i \in DOMAIN RefundLines : HasLine(call.value.text, RefundLines[i])
        /\ \A i \in DOMAIN ContactLines : ~HasLine(call.value.text, ContactLines[i])

\* C11 amended: the refund entry scores 2 and the contact entry scores 2 as
\* well (its question shares the word "i" with the query), so the keyword
\* context holds both entries, the refund entry first.
C11_BothSelected ==
    RefundScenario =>
        /\ score(call.query, qa_pairs[1]) = 2
        /\ score(call.query, qa_pairs[2]) = 2
        /\ <<"i">> \in LowerWords(call.query) \cap LowerWords(qa_pairs[2].question)
        /\ Lines(call.value.text) = PairLines(<<qa_pairs[1], qa_pairs[2]>>)

C11_Witness ==
    /\ RefundScenario
    /\ Len(Lines(call.value.text)) = 5
    /\ HasLine(call.value.text, ContactLines[1])

\* The step is the end of a load_knowledge_base() or reload() call.
LoadFinishes ==
    /\ kpc' = "idle"
    /\ \/ kpc = "reloading"
       \/ kpc = "idle" /\ file' = file /\ seen' = seen /\ call' = call
            /\ <<qa_pairs, raw_content, last, before>>'
                 # <<qa_pairs, raw_content, last, before>>

\* The entries the store held when the call began.
EntriesBeforeCall == IF kpc = "reloading" THEN before ELSE qa_pairs

\* C20: when the store is loaded and its source is the unchanged, valid text
\* it was loaded from, a reload() or a further load_knowledge_base() leaves
\* the same entries (count, questions, answers, indexes) and is_loaded true:
\* nothing is duplicated.
C20_ReloadSameEntries ==
    [][(/\ LoadFinishes
        /\ file.kind = "text"
        /\ file.content = raw_content
        /\ is_loaded(EntriesBeforeCall))
       => (/\ qa_pairs' = EntriesBeforeCall
           /\ is_loaded(qa_pairs')
           /\ last'.outcome = "ok")]_vars

C20_Witness ==
    /\ kpc = "idle"
    /\ last.op = "reload"
    /\ last.outcome = "ok"
    /\ file.kind = "text"
    /\ file.content = raw_content
    /\ Len(before) = 2
    /\ qa_pairs = before

\* The text is the entries shown as Q:/A: pairs (the empty text for none).
ContextIs(text, entries) ==
    IF entries = <<>> THEN text = <<>> ELSE Lines(text) = PairLines(entries)

\* C12: for a knowledge base of n entries and a given cap m >= 0, the
\* formatted context holds exactly the first min(m, n) entries in ordinal
\* order as Q:/A: lines; without a cap it holds all n entries.
C12_CapTruncates ==
    call.op = "get_context_for_prompt" =>
        LET n == Len(qa_pairs)
            m == call.max_pairs
        IN IF ~m.given THEN ContextIs(call.value, qa_pairs)
           ELSE m.value >= 0 =>
                  ContextIs(call.value,
                            SubSeq(qa_pairs, 1, IF m.value < n THEN m.value ELSE n))

\* The end of an answer body that starts at position s: the position of the
\* next Q: marker after it, or the end of the text.
BodyEnd(t, s) ==
    Min({e \in s + 1 .. Len(t) + 1 : e = Len(t) + 1 \/ at(t, e, QMark)})

\* C18: the answer of every parsed pair is all the text after its A: marker
\* up to the next Q: marker or the end of the input, following lines
\* included, with whitespace collapsed.
C18_AnswerKeptInFull ==
    call.op = "_parse_qa_pairs" =>
        \A i \in 1 .. Len(call.matches) :
            LET m == call.matches[i]
                body == SubSeq(call.content, m.answer_start,
                               BodyEnd(call.content, m.answer_start) - 1)
            IN clean_text(m.answer) = clean_text(body)

\* C19: formatting a loaded knowledge base with get_context_for_prompt (no
\* cap) and parsing that text again gives the same entries: same length,
\* same question, answer and index at each position.
C19_FormatParseRoundTrip ==
    (call.op = "get_context_for_prompt" /\ ~call.max_pairs.given
       /\ is_loaded(qa_pairs)) =>
        parse_qa_pairs(call.value) = qa_pairs

----------------------------------------------------------------------------
(* Properties of answer_question, checked under SpecAnswer *)

Answering == apc # "idle" /\ ans # NoAnswer
KnowledgeBaseAbsent == knowledge_base = "None" \/ ~is_loaded(qa_pairs)
SelectionErrors == {"ValueError", "NotImplementedError"}
GenerateErrors == {"LLMException", "OllamaConnectionException"}

\* C13: without a knowledge base (none supplied or none loaded),
\* answer_question uses the placeholder context whatever the method string
\* is and goes on to the generation call; it fails only if generate fails.
C13_AbsentUsesPlaceholder ==
    (Answering /\ KnowledgeBaseAbsent) =>
        /\ "context" \in DOMAIN ans
        /\ ans.context = PlaceholderContext
        /\ ans.prompt = build_prompt(ans.args.question, PlaceholderContext)
        /\ apc = "generating" => (gpc = "attempting" \/ posts # <<>>)
        /\ apc = "done" =>
             /\ posts # <<>>
             /\ ans.outcome.kind \notin SelectionErrors
             /\ result.kind = "str" => ans.outcome.kind = "dict"

C13_Witness ==
    /\ apc = "done"
    /\ knowledge_base = "manager"
    /\ ~is_loaded(qa_pairs)
    /\ ans.args.context_method = "similarity"
    /\ ans.context = PlaceholderContext
    /\ Len(posts) = 2
    /\ ans.outcome.kind = "dict"

\* C14: an error raised by the context selection or by generate inside
\* answer_question reaches the caller as that same error, kind and details:
\* it is not converted, generate is not called again, and no result
\* dictionary is returned in its place.
C14_ErrorsPropagateUnchanged ==
    (Answering /\ apc = "done") =>
        /\ "context" \notin DOMAIN ans =>
             /\ ans.outcome = get_relevant_context(qa_pairs, ans.args.question,
                                                   ans.args.context_method)
             /\ ans.outcome.kind \in SelectionErrors
             /\ posts = <<>>
        /\ ("context" \in DOMAIN ans /\ result.kind \in GenerateErrors) =>
             /\ ans.outcome = result
             /\ Len(posts) <= DefaultRetryCount + 1
        /\ ans.outcome.kind = "dict" =>
             /\ result.kind = "str"
             /\ ans.outcome.answer = result.text

C14_Witness ==
    /\ apc = "done"
    /\ Len(posts) = 2
    /\ Last.kind = "status"
    /\ ans.outcome = RaisedLLM("HTTP error from Ollama",
                               [status_code |-> 404, response |-> <<"e", "r", "r">>])

LoadedForAnswer == knowledge_base = "manager" /\ is_loaded(qa_pairs)

\* C15 as stated: with a loaded knowledge base, every method string other
\* than "all" and "keyword" fails with the one error kind the code has for
\* an unrecognised method, and no generation request is sent.
C15_OneErrorKind ==
    (Answering /\ LoadedForAnswer
       /\ ans.args.context_method \notin {"all", "keyword"}) =>
        /\ apc = "done"
        /\ ans.outcome.kind = "ValueError"
        /\ posts = <<>>

\* C15 amended: with a loaded knowledge base, every method string other than
\* "all" and "keyword" fails before any generation request is sent: with
\* ValueError for an unrecognised string, and with NotImplementedError for
\* the string "similarity".
C15_UnknownMethodFails ==
    (Answering /\ LoadedForAnswer
       /\ ans.args.context_method \notin {"all", "keyword"}) =>
        /\ apc = "done"
        /\ ans.outcome.kind = IF ans.args.context_method = "similarity"
                                THEN "NotImplementedError" ELSE "ValueError"
        /\ posts = <<>>
        /\ gpc = "idle"

C15_Witness ==
    /\ apc = "done"
    /\ LoadedForAnswer
    /\ ans.args.context_method = "semantic"
    /\ ans.outcome.kind = "ValueError"
    /\ posts = <<>>

----------------------------------------------------------------------------
(* Properties of the probes, checked under SpecProbe *)

\* The listing succeeded: status 200 and a body that decodes to a dictionary
\* whose listed models all carry a name.
ListingSucceeded(response) ==
    /\ response.kind = "response"
    /\ response.status_code = 200
    /\ response.body.kind = "dict"
    /\ response.body.has_models =>
         \A i \in 1 .. Len(response.body.models) : response.body.models[i].has_name

ListedNamesOf(response) ==
    IF response.body.has_models
      THEN {response.body.models[i].name : i \in 1 .. Len(response.body.models)}
      ELSE {}

\* C16: check_model_available is true exactly when the model listing
\* succeeded and some listed name starts with the base name of the model (the
\* part before the first colon); a name that only contains the base name
\* elsewhere does not count; any failure gives false.
C16_TrueIffPrefixListed ==
    probe.op = "check_model_available" =>
        (probe.value <=>
           /\ ListingSucceeded(probe.response)
           /\ \E n \in ListedNamesOf(probe.response) :
                startswith(model_base_of(probe.model), n))

\* C17: check_connection always returns a boolean, false for a network
\* error, a timeout and every status other than 200, true only for 200.
C17_ConnectionIffStatus200 ==
    probe.op = "check_connection" =>
        /\ probe.value \in BOOLEAN
        /\ probe.value <=> (probe.response.kind = "response"
                              /\ probe.response.status_code = 200)
        /\ probe.response.kind \in {"timeout", "transport"} => ~probe.value

C17_Witness ==
    /\ probe.op = "check_connection"
    /\ probe.response.kind = "response"
    /\ probe.response.status_code = 204
    /\ probe.value = FALSE

----------------------------------------------------------------------------
(* Further properties of generate *)

Terminal == {"str", "LLMException", "OllamaConnectionException"}

\* A step of the retry loop when the budget is not negative.
LoopStep == gpc = "attempting" /\ retry_count >= 0

\* C24: with a retry budget r >= 0 every run of generate ends, in exactly one
\* terminal outcome (a returned text or a raised error), after at most r + 1
\* requests; the attempt counter starts at 0 and rises by exactly 1 per
\* retry; a retry follows only a timeout at an attempt below r; no request is
\* sent once the run has ended.
C24_BoundedRetryLoop ==
    /\ [](retry_count >= 0 =>
            /\ Len(posts) <= retry_count + 1
            /\ attempt <= retry_count
            /\ gpc = "attempting" => (result = NoResult /\ Len(posts) = attempt)
            /\ gpc = "done" => (result.kind \in Terminal /\ posts # <<>>))
    /\ [][/\ (gpc = "idle" /\ gpc' = "attempting") => (attempt' = 0 /\ posts' = <<>>)
          /\ (LoopStep /\ gpc' = "attempting") =>
                 /\ attempt' = attempt + 1
                 /\ posts'[Len(posts')].kind = "timeout"
                 /\ attempt < retry_count
          /\ (LoopStep /\ gpc' = "done") => attempt' = attempt
          /\ gpc = "done" => (posts' = posts \/ posts' = <<>>)]_vars
    /\ (gpc = "attempting" ~> gpc = "done")

C24_Witness ==
    /\ gpc = "done"
    /\ retry_count = 2
    /\ attempt = 2
    /\ Len(posts) = 3
    /\ result.kind = "str"

\* C25: whenever generate returns a text, the text is not empty and has no
\* leading or trailing whitespace, whatever the payload of the backend.
C25_ReturnedTextNonEmpty ==
    (gpc = "done" /\ result.kind = "str") =>
        (result.text # <<>> /\ strip(result.text) = result.text)

\* C29: for every integer retry budget, negative ones included, a call of
\* generate ends by returning a text or by raising one of its two errors,
\* and has sent at least one request by then.
C29_NeverEndsWithoutValue ==
    gpc = "done" => (result.kind \in Terminal /\ posts # <<>>)

----------------------------------------------------------------------------
(* Further properties of the store, checked under SpecStore *)

Called == last.op \in {"load", "reload"}
LastSucceeded == Called /\ last.outcome = "ok"
LastFailed == Called /\ last.outcome # "ok"

----------------------------------------------------------------------------
(* Properties of the prompt, checked under SpecAnswer *)

\* The one text the template gives for a question and a context: the
\* framing, the context verbatim, the instructions, the question label, the
\* question verbatim, and the answer cue at the end.
PromptShape(text, question, context) ==
    LET framing == PromptFraming(<<"our company">>)
        c == Len(framing)
        i == c + Len(context)
    IN /\ Len(text) = i + Len(question) + 3
       /\ SubSeq(text, 1, c) = framing
       /\ SubSeq(text, c + 1, i) = context
       /\ text[i + 1] = PromptInstructions[1]
       /\ text[i + 2] = PromptQuestionLabel[1]
       /\ SubSeq(text, i + 3, i + 2 + Len(question)) = question
       /\ text[Len(text)] = PromptAnswerCue[1]

\* C23: the prompt is a function of the question and the context alone: in
\* every state of the store, of the backend and of an answer_question call
\* under way, build_prompt gives the one text of the template, which holds
\* the context verbatim, then the instructions, then the question as
\* given, and ends with the answer cue.
C23_PromptIsPure ==
    /\ call.op = "build_prompt" =>
         PromptShape(call.value, call.question, call.context)
    /\ (ans # NoAnswer /\ "prompt" \in DOMAIN ans) =>
         PromptShape(ans.prompt, ans.args.question, ans.context)

C23_Witness ==
    /\ call.op = "build_prompt"
    /\ call.context # <<>>
    /\ call.question = <<" ", "q", "?", " ">>
    /\ apc = "generating"
    /\ Len(posts) = 1
    /\ is_loaded(qa_pairs)
    /\ ans.context # call.context
    /\ call.value[Len(call.value)] = PromptAnswerCue[1]

----------------------------------------------------------------------------
(* Properties of the /ask request, checked under SpecAsk *)

RequestDone == rpc = "done"

\* C21: once answer_question has produced an answer, query_repo.create
\* raising does not fail the request: the response is 200 with the generated
\* answer, and question_id is 0, which no stored row has.
C21_StoreFailureStillAnswers ==
    RequestDone =>
        /\ stored = "raised" =>
             /\ ask_response.status_code = 200
             /\ ask_response.answer = ans.outcome.answer
             /\ ask_response.answer = result.text
             /\ ask_response.question_id = 0
        /\ stored = "ok" =>
             (ask_response.status_code = 200 /\ ask_response.question_id # 0)

C21_Witness ==
    /\ RequestDone
    /\ stored = "raised"
    /\ ask_response = AskResponse(<<"o", "k">>, 0)
    /\ client = "closed"

\* C22: with app.state.knowledge_base None the request is answered with
\* status 500 and an error detail; no CustomerSupportLLM is built (no client
\* is opened) and no probe and no generation request is sent.
C22_NoKnowledgeBaseIs500 ==
    (RequestDone /\ knowledge_base = "None") =>
        /\ ask_response.status_code = 500
        /\ ask_response.kind = "HTTPException"
        /\ ask_response.detail # ""
        /\ client = "none"
        /\ probes = <<>>
        /\ posts = <<>>
        /\ gpc = "idle"

C22_Witness ==
    /\ RequestDone
    /\ knowledge_base = "None"
    /\ last.outcome = "KnowledgeBaseException"
    /\ ask_response.status_code = 500

\* C26: the HTTP client opened for a request is closed on every way out of
\* the request: the normal return, an error raised by answer_question, and
\* an error raised while CustomerSupportLLM is constructed.
C26_ClientClosedOnExit ==
    RequestDone => client # "open"

\* C28: within a request no generation request is sent unless
\* check_connection returned true for the request's client; a false probe
\* ends the request with OllamaConnectionException and status 503; a model
\* check that returned false stops nothing: the request goes on to the
\* generation request.
C28_ProbePrecedesGeneration ==
    rpc # "idle" =>
        /\ (posts # <<>> \/ gpc # "idle" \/ apc # "idle") =>
             /\ Len(probes) = 2
             /\ probes[1] = [op |-> "check_connection", value |-> TRUE]
             /\ probes[2].op = "check_model_available"
        /\ (probes # <<>> /\ ~probes[1].value) =>
             /\ Len(probes) = 1
             /\ RequestDone
             /\ ask_response.status_code = 503
             /\ posts = <<>>
        /\ (RequestDone /\ Len(probes) = 2) => posts # <<>>
        /\ (Len(probes) = 2 /\ rpc \in {"answering", "storing"}) =>
             (gpc = "attempting" \/ posts # <<>>)

C28_Witness ==
    /\ RequestDone
    /\ Len(probes) = 2
    /\ ~probes[2].value
    /\ Len(posts) = 1
    /\ ask_response.status_code = 200

----------------------------------------------------------------------------
(* Frame of the read operations, checked under SpecUse *)

\* The step belongs to a read operation or to answer_question (and the
\* generate call inside it).
ReadStep ==
    \/ call' # call
    \/ ans' # ans
    \/ apc' # apc
    \/ genVars' # genVars

\* The step changes the entries as reload (the clear) or load_knowledge_base
\* (the parsed source) does.
LoadStep ==
    \/ kpc = "idle" /\ kpc' = "reloading" /\ qa_pairs' = <<>>
    \/ file.kind = "text" /\ kpc' = "idle"
         /\ qa_pairs' = parse_qa_pairs(file.content)

\* C27: get_all_qa_pairs, get_context_for_prompt, search_by_keywords,
\* get_relevant_context and answer_question, whether they succeed or fail,
\* leave the entries of the store (their number, order, questions, answers
\* and indexes) and is_loaded as they were; only load_knowledge_base and
\* reload change them.
C27_ReadsLeaveStoreUnchanged ==
    [][/\ ReadStep => (/\ qa_pairs' = qa_pairs
                       /\ raw_content' = raw_content
                       /\ is_loaded(qa_pairs') = is_loaded(qa_pairs))
       /\ qa_pairs' # qa_pairs => (LoadStep /\ ~ReadStep)]_vars

C27_Witness ==
    /\ Len(qa_pairs) = 2
    /\ call.op = "search_by_keywords"
    /\ Len(call.value) = 1
    /\ apc = "done"
    /\ ans.outcome.kind = "ValueError"
    /\ last.op = "reload"

====
